---- MODULE Spec2Model ----
(***************************************************************************)
(* CloudMart cost-governance dashboard (src/streamlit_dashboard.py).       *)
(*                                                                         *)
(* A dataset (pandas DataFrame) is a sequence of rows; a row is a record   *)
(* indexed by column name.  A text cell is a string; the float NaN that    *)
(* pandas stores for a missing cell is the reserved value NaN below, and   *)
(* every comparison the code makes on cells goes through PdEq, which is    *)
(* false on NaN as pandas' == is.  MonthlyCostUSD is a number and is kept  *)
(* as a natural number of dollars.  A CSV file is a sequence of rows whose *)
(* text cells are the strings found between the commas ("" for an empty    *)
(* cell).  DataFrames are objects: the variable heap holds them and the    *)
(* program variables df, filtered_df, remediated_df hold references.       *)
(***************************************************************************)
EXTENDS Integers, Sequences, FiniteSets, TLC

VARIABLES csv_file, heap, df, page, selection, filtered_df, warning, metrics,
          before_metrics, edited_df, remediated_df, after_metrics, deltas,
          csv_data, reloaded

vars == <<csv_file, heap, df, page, selection, filtered_df, warning, metrics,
          before_metrics, edited_df, remediated_df, after_metrics, deltas,
          csv_data, reloaded>>

\* Largest number of data lines of the CSV file on disk.
MaxRows == 2

\* pandas' missing value (float nan) in a DataFrame cell.
NaN == "NaN"

\* Python's None, for a local the script has not assigned in this run.
None == [none |-> TRUE]

\* The value of a DataFrame variable the script has not assigned in this run.
NoRef == 0

\* A float as an exact fraction; a zero denominator is the float nan (0/0).
Ratio(num, den) == [num |-> num, den |-> den]
FloatNaN == Ratio(0, 0)
IsNaN(x) == x.den = 0
IsZero(x) == x.den # 0 /\ x.num = 0

\* pandas' elementwise ==: false whenever either side is NaN.
PdEq(a, b) == a # NaN /\ b # NaN /\ a = b

\* pd.read_csv(..., na_values=['', ' ']): the cell texts read as missing.
na_values == {"", " "}

tag_fields == <<"Department", "Project", "Environment", "Owner", "CostCenter">>

edit_columns == <<"ResourceID", "Service", "Region", "Department", "Project",
                  "Environment", "Owner", "CostCenter", "MonthlyCostUSD", "Tagged">>

\* The columns that hold text (every column of the schema but the cost).
TextColumns == {"ResourceID", "Service", "Region", "Tagged", "Department",
                "Project", "Environment", "Owner", "CostCenter"}

DerivedColumns == {"TagCompletenessScore", "TagCompletenessPercentage"}

\* The options of the two SelectboxColumns of the data editor.
EnvironmentOptions == {"Prod", "Dev", "Test"}
TaggedOptions == {"Yes", "No"}

Range(s) == {s[i] : i \in 1..Len(s)}

RECURSIVE SumOver(_, _)
SumOver(s, col) ==
    IF Len(s) = 0 THEN 0 ELSE s[1][col] + SumOver(Tail(s), col)

(***************************************************************************)
(* load_data                                                               *)
(***************************************************************************)

\* read_csv on one cell of a text column.
read_csv_cell(text) == IF text \in na_values THEN NaN ELSE text

read_csv_row(line) ==
    [c \in DOMAIN line |->
        IF c \in TextColumns THEN read_csv_cell(line[c]) ELSE line[c]]

read_csv(file) == [i \in 1..Len(file) |-> read_csv_row(file[i])]

\* DataFrame.drop_duplicates(): the first of each group of equal rows stays.
RECURSIVE drop_duplicates(_)
drop_duplicates(d) ==
    IF Len(d) = 0 THEN <<>>
    ELSE LET front == drop_duplicates(SubSeq(d, 1, Len(d) - 1))
             last == d[Len(d)]
         IN IF last \in Range(front) THEN front ELSE Append(front, last)

\* df[tag_fields].notna().sum(axis=1) for one row.
NotNaCount(r) == Cardinality({k \in 1..Len(tag_fields) : r[tag_fields[k]] # NaN})

\* The two assignments that compute the completeness columns.
Score(d) ==
    [i \in 1..Len(d) |->
        [c \in DOMAIN d[i] \cup DerivedColumns |->
            IF c = "TagCompletenessScore" THEN NotNaCount(d[i])
            ELSE IF c = "TagCompletenessPercentage"
                 THEN (NotNaCount(d[i]) * 100) \div Len(tag_fields)
                 ELSE d[i][c]]]

load_data(file) == Score(drop_duplicates(read_csv(file)))

(***************************************************************************)
(* calculate_metrics                                                       *)
(***************************************************************************)

\* df[df[col] == value]
Where(d, col, value) == SelectSeq(d, LAMBDA r : PdEq(r[col], value))

\* Series.mean(): nan on an empty Series.
Mean(d, col) ==
    IF Len(d) = 0 THEN FloatNaN ELSE Ratio(SumOver(d, col), Len(d))

calculate_metrics_complement(d) ==
    LET total_resources == Len(d)
        tagged_resources == Len(Where(d, "Tagged", "Yes"))
        untagged_resources == total_resources - tagged_resources
        total_cost == SumOver(d, "MonthlyCostUSD")
        tagged_cost == SumOver(Where(d, "Tagged", "Yes"), "MonthlyCostUSD")
        untagged_cost == SumOver(Where(d, "Tagged", "No"), "MonthlyCostUSD")
    IN [total_resources |-> total_resources,
        tagged_resources |-> tagged_resources,
        untagged_resources |-> untagged_resources,
        tagging_rate |-> IF total_resources > 0
                         THEN Ratio(tagged_resources * 100, total_resources)
                         ELSE Ratio(0, 1),
        total_cost |-> total_cost,
        tagged_cost |-> tagged_cost,
        untagged_cost |-> untagged_cost,
        untagged_cost_pct |-> IF total_cost > 0
                              THEN Ratio(untagged_cost * 100, total_cost)
                              ELSE Ratio(0, 1),
        avg_completeness |-> Mean(d, "TagCompletenessScore")]

calculate_metrics(d) ==
    LET total_resources == Len(d)
        tagged_resources == Len(Where(d, "Tagged", "Yes"))
        untagged_resources == Len(Where(d, "Tagged", "No"))
        total_cost == SumOver(d, "MonthlyCostUSD")
        tagged_cost == SumOver(Where(d, "Tagged", "Yes"), "MonthlyCostUSD")
        untagged_cost == SumOver(Where(d, "Tagged", "No"), "MonthlyCostUSD")
    IN [total_resources |-> total_resources,
        tagged_resources |-> tagged_resources,
        untagged_resources |-> untagged_resources,
        tagging_rate |-> IF total_resources > 0
                         THEN Ratio(tagged_resources * 100, total_resources)
                         ELSE Ratio(0, 1),
        total_cost |-> total_cost,
        tagged_cost |-> tagged_cost,
        untagged_cost |-> untagged_cost,
        untagged_cost_pct |-> IF total_cost > 0
                              THEN Ratio(untagged_cost * 100, total_cost)
                              ELSE Ratio(0, 1),
        avg_completeness |-> Mean(d, "TagCompletenessScore")]

(***************************************************************************)
(* DataFrame objects                                                       *)
(***************************************************************************)

\* df.copy(): a new object with the same rows.  The result is the heap after
\* the call and the reference returned.
DfCopyAlias(h, src) == [heap |-> h, ref |-> src]
DfCopy(h, src) == [heap |-> Append(h, h[src]), ref |-> Len(h) + 1]

(***************************************************************************)
(* show_analytics_page: the sidebar filters                                *)
(***************************************************************************)

\* ['All'] + sorted(df[col].dropna().unique().tolist())
SelectboxOptions(d, col) == {"All"} \cup {d[i][col] : i \in {j \in 1..Len(d) : d[j][col] # NaN}}

\* if selected != 'All': filtered_df = filtered_df[filtered_df[col] == selected]
FilterBy(d, col, selected) == IF selected # "All" THEN Where(d, col, selected) ELSE d

ApplyFiltersNoEnvironment(d, sel) ==
    FilterBy(FilterBy(FilterBy(d, "Service", sel.Service),
                      "Region", sel.Region),
             "Department", sel.Department)

ApplyFilters(d, sel) ==
    FilterBy(FilterBy(FilterBy(FilterBy(d, "Service", sel.Service),
                               "Region", sel.Region),
                      "Department", sel.Department),
             "Environment", sel.Environment)

show_analytics_page ==
    /\ page = "start"
    /\ \E selected_service \in SelectboxOptions(heap[df], "Service"),
          selected_region \in SelectboxOptions(heap[df], "Region"),
          selected_department \in SelectboxOptions(heap[df], "Department"),
          selected_environment \in SelectboxOptions(heap[df], "Environment") :
          LET sel == [Service |-> selected_service, Region |-> selected_region,
                      Department |-> selected_department,
                      Environment |-> selected_environment]
              c == DfCopy(heap, df)
              view == ApplyFilters(c.heap[c.ref], sel)
              unfiltered == \A col \in DOMAIN sel : sel[col] = "All"
          IN /\ selection' = sel
             /\ heap' = IF unfiltered THEN c.heap ELSE Append(c.heap, view)
             /\ filtered_df' = IF unfiltered THEN c.ref ELSE Len(c.heap) + 1
             /\ warning' = (Len(view) = 0)
             /\ metrics' = IF Len(view) = 0 THEN None ELSE calculate_metrics(view)
    /\ page' = "analytics"
    /\ UNCHANGED <<csv_file, df, before_metrics, edited_df, remediated_df,
                   after_metrics, deltas, csv_data, reloaded>>

(***************************************************************************)
(* show_remediation_page                                                   *)
(***************************************************************************)

\* untagged_df[edit_columns]: the columns handed to the data editor.
Project(d, cols) == [i \in 1..Len(d) |-> [c \in Range(cols) |-> d[i][c]]]

\* What st.data_editor can return for one row.  ResourceID, Service, Region and
\* MonthlyCostUSD are disabled and come back as given; every other cell comes
\* back as given or holding a value the user entered (typed, for the text
\* columns, and picked among the options, for the two selectbox columns).
\* inputs maps each editable column to the values the user may enter.
data_editor_row(r, inputs) ==
    {[r EXCEPT !.Department = d, !.Project = p, !.Environment = e,
               !.Owner = o, !.CostCenter = cc, !.Tagged = t] :
        d \in {r.Department} \cup inputs.Department,
        p \in {r.Project} \cup inputs.Project,
        e \in {r.Environment} \cup (inputs.Environment \cap EnvironmentOptions),
        o \in {r.Owner} \cup inputs.Owner,
        cc \in {r.CostCenter} \cup inputs.CostCenter,
        t \in {r.Tagged} \cup (inputs.Tagged \cap TaggedOptions)}

\* num_rows="fixed": the editor returns one row per row it was given.
RECURSIVE data_editor(_, _)
data_editor(d, inputs) ==
    IF Len(d) = 0 THEN {<<>>}
    ELSE {<<r>> \o rest : r \in data_editor_row(d[1], inputs),
                          rest \in data_editor(Tail(d), inputs)}

\* One turn of the loop over edited_df.iterrows(): the mask, then one
\* assignment per column of edit_columns.
OverwriteRow(old, row) ==
    [c \in DOMAIN old |-> IF c \in Range(edit_columns) THEN row[c] ELSE old[c]]

ApplyEditFirstMatch(d, row) ==
    LET mask == {i \in 1..Len(d) : PdEq(d[i].ResourceID, row.ResourceID)}
    IN [i \in 1..Len(d) |->
          IF i \in mask /\ \A j \in mask : i <= j
          THEN OverwriteRow(d[i], row) ELSE d[i]]

ApplyEdit(d, row) ==
    LET mask == {i \in 1..Len(d) : PdEq(d[i].ResourceID, row.ResourceID)}
    IN [i \in 1..Len(d) |-> IF i \in mask THEN OverwriteRow(d[i], row) ELSE d[i]]

RECURSIVE MergeLoop(_, _)
MergeLoop(d, edited) ==
    IF Len(edited) = 0 THEN d
    ELSE MergeLoop(ApplyEdit(d, edited[1]), Tail(edited))

\* "Recalculate tag completeness": the same two assignments, on remediated_df.
RecalculateSkipped(d) == d
RecalculateCompleteness(d) == Score(d)

\* f"{x:.2f}" of the non-negative fraction num/den, in hundredths.
Format2f(num, den) == (200 * num + den) \div (2 * den)

\* The delta of "Untagged Resources": f"-{improvement}" if improvement > 0 else "0".
ResourceDeltaUnclamped(improvement) == [sign |-> "-", magnitude |-> improvement]
ResourceDelta(improvement) ==
    IF improvement > 0 THEN [sign |-> "-", magnitude |-> improvement]
    ELSE [sign |-> "", magnitude |-> 0]

\* The delta of "Untagged Cost": f"-${cost_improvement:,.2f}" if > 0 else "$0.00".
CostDelta(cost_improvement) ==
    IF cost_improvement > 0 THEN [sign |-> "-", magnitude |-> cost_improvement]
    ELSE [sign |-> "", magnitude |-> 0]

\* The delta of "Avg Tag Completeness", in hundredths:
\* f"+{completeness_improvement:.2f}" if completeness_improvement > 0 else "0.00".
\* Both averages are over the same number of rows (nan when there is none,
\* and nan > 0 is false).
CompletenessDelta(after, before) ==
    IF ~IsNaN(after) /\ ~IsNaN(before)
       /\ after.num * before.den > before.num * after.den
    THEN [sign |-> "+",
          magnitude |-> Format2f(after.num * before.den - before.num * after.den,
                                 after.den * before.den)]
    ELSE [sign |-> "", magnitude |-> 0]

\* DataFrame.to_csv(index=False): a missing cell is written as the empty text.
to_csv_cell(v) == IF v = NaN THEN "" ELSE v

to_csv(d) ==
    [i \in 1..Len(d) |->
        [c \in DOMAIN d[i] |->
            IF c \in TextColumns THEN to_csv_cell(d[i][c]) ELSE d[i][c]]]

show_remediation_page(inputs) ==
    /\ page = "start"
    /\ LET untagged_df == Where(heap[df], "Tagged", "No")
       IN IF Len(untagged_df) = 0
          THEN /\ edited_df' = <<>>
               /\ heap' = heap
               /\ remediated_df' = NoRef
               /\ after_metrics' = None
               /\ deltas' = None
               /\ csv_data' = <<>>
          ELSE \E edited \in data_editor(Project(untagged_df, edit_columns), inputs) :
                 LET c == DfCopy(heap, df)
                     merged == MergeLoop(c.heap[c.ref], edited)
                     h == [c.heap EXCEPT ![c.ref] = RecalculateCompleteness(merged)]
                     before == calculate_metrics(heap[df])
                     after == calculate_metrics(h[c.ref])
                 IN /\ edited_df' = edited
                    /\ heap' = h
                    /\ remediated_df' = c.ref
                    /\ after_metrics' = after
                    /\ deltas' =
                         [untagged_resources |->
                            ResourceDelta(before.untagged_resources
                                          - after.untagged_resources),
                          untagged_cost |->
                            CostDelta(before.untagged_cost - after.untagged_cost),
                          avg_completeness |->
                            CompletenessDelta(after.avg_completeness,
                                              before.avg_completeness)]
                    /\ csv_data' = to_csv(h[c.ref])
    /\ before_metrics' = calculate_metrics(heap[df])
    /\ page' = "remediation"
    /\ UNCHANGED <<csv_file, df, selection, filtered_df, warning, metrics, reloaded>>

\* The downloaded file read back by load_data.
load_export ==
    /\ page = "remediation"
    /\ remediated_df # NoRef
    /\ reloaded' = load_data(csv_data)
    /\ page' = "reloaded"
    /\ UNCHANGED <<csv_file, heap, df, selection, filtered_df, warning, metrics,
                   before_metrics, edited_df, remediated_df, after_metrics,
                   deltas, csv_data>>

\* main(): Streamlit runs the script again from the top; load_data returns the
\* dataset of the file and the locals of the previous run are gone.
main ==
    /\ page # "start"
    /\ heap' = <<load_data(csv_file)>>
    /\ df' = 1
    /\ page' = "start"
    /\ selection' = None
    /\ filtered_df' = NoRef
    /\ warning' = FALSE
    /\ metrics' = None
    /\ before_metrics' = None
    /\ edited_df' = <<>>
    /\ remediated_df' = NoRef
    /\ after_metrics' = None
    /\ deltas' = None
    /\ csv_data' = <<>>
    /\ reloaded' = <<>>
    /\ UNCHANGED csv_file

\* Every CSV file of at most MaxRows data lines drawn from lines.
Files(lines) == UNION {[1..n -> lines] : n \in 0..MaxRows}

InitWith(lines) ==
    /\ csv_file \in Files(lines)
    /\ heap = <<load_data(csv_file)>>
    /\ df = 1
    /\ page = "start"
    /\ selection = None
    /\ filtered_df = NoRef
    /\ warning = FALSE
    /\ metrics = None
    /\ before_metrics = None
    /\ edited_df = <<>>
    /\ remediated_df = NoRef
    /\ after_metrics = None
    /\ deltas = None
    /\ csv_data = <<>>
    /\ reloaded = <<>>

\* The lines of the dataset file: one set of cell texts per column.
Lines(ids, svcs, regions, costs, taggeds, depts, projs, envs, owners, ccs) ==
    [ResourceID : ids, Service : svcs, Region : regions,
     MonthlyCostUSD : costs, Tagged : taggeds, Department : depts,
     Project : projs, Environment : envs, Owner : owners, CostCenter : ccs]

(***************************************************************************)
(* The whole application: both pages, over files whose lines share two     *)
(* resource ids and differ in service and tagged flag.                     *)
(***************************************************************************)
AppLines ==
    Lines({"R1", "R2"}, {"S3", "EC2"}, {"us-east-1"}, {100}, {"Yes", "No"},
          {""}, {"X"}, {"Prod"}, {""}, {"CC1"})

AppInputs ==
    [Department |-> {"Eng"}, Project |-> {}, Environment |-> {},
     Owner |-> {}, CostCenter |-> {}, Tagged |-> {"Yes"}]

Init == InitWith(AppLines)

Next ==
    \/ show_analytics_page
    \/ show_remediation_page(AppInputs)
    \/ load_export
    \/ main

Spec == Init /\ [][Next]_vars

(***************************************************************************)
(* The remediation page, over files whose lines share two resource ids or  *)
(* have none, and differ in tagged flag and department, the environment    *)
(* being free text that is none of the editor's options.                   *)
(***************************************************************************)
RemediationLines ==
    Lines({"R1", "R2", ""}, {"S3"}, {"us-east-1"}, {100}, {"Yes", "No"},
          {" ", "Eng"}, {""}, {"Staging"}, {"Bob"}, {""})

RemediationInputs ==
    [Department |-> {"Eng"}, Project |-> {}, Environment |-> {"Prod"},
     Owner |-> {}, CostCenter |-> {}, Tagged |-> {"Yes"}]

InitRemediation == InitWith(RemediationLines)

NextRemediation ==
    \/ show_remediation_page(RemediationInputs)
    \/ load_export
    \/ main

SpecRemediation == InitRemediation /\ [][NextRemediation]_vars

(***************************************************************************)
(* The analytics page, over files whose lines differ in the four filtered  *)
(* columns, department and environment being empty in some.                *)
(***************************************************************************)
FilterLines ==
    Lines({"R1"}, {"S3", "EC2"}, {"us-east-1", "eu-west-1"}, {100}, {"No"},
          {"", "Eng"}, {""}, {"", "Prod"}, {""}, {""})

InitFilter == InitWith(FilterLines)

NextFilter ==
    \/ show_analytics_page
    \/ main

SpecFilter == InitFilter /\ [][NextFilter]_vars

(***************************************************************************)
(* The metrics of both pages, over files whose lines differ in tagged flag *)
(* (Yes, No, another text, empty), cost and department.                    *)
(***************************************************************************)
MetricsLines ==
    Lines({"R1"}, {"S3"}, {"us-east-1"}, {50, 100}, {"Yes", "No", "yes", ""},
          {"", "Eng"}, {""}, {""}, {""}, {""})

MetricsInputs ==
    [Department |-> {}, Project |-> {}, Environment |-> {},
     Owner |-> {}, CostCenter |-> {}, Tagged |-> {"Yes"}]

InitMetrics == InitWith(MetricsLines)

NextMetrics ==
    \/ show_analytics_page
    \/ show_remediation_page(MetricsInputs)
    \/ main

SpecMetrics == InitMetrics /\ [][NextMetrics]_vars

(***************************************************************************)
(* Properties                                                              *)
(***************************************************************************)

\* The columns the data editor shows disabled.
ReadOnlyColumns == {"ResourceID", "Service", "Region", "MonthlyCostUSD"}

\* The columns the data editor lets the user change.
EditableColumns == {"Department", "Project", "Environment", "Owner",
                    "CostCenter", "Tagged"}

\* The merge has run in this render.
Merged == page \in {"remediation", "reloaded"} /\ remediated_df # NoRef

\* C1: the merge leaves ResourceID, Service, Region and MonthlyCostUSD of every
\* row of the merged dataset equal to that row's values in the base dataset.
C1_ReadOnlyColumnsKept ==
    Merged =>
        /\ Len(heap[remediated_df]) = Len(heap[df])
        /\ \A i \in 1..Len(heap[df]) : \A c \in ReadOnlyColumns :
              heap[remediated_df][i][c] = heap[df][i][c]

\* C2: after a merge every row's TagCompletenessScore is the number of its
\* five tag fields that are not missing, lies in 0..5, and its
\* TagCompletenessPercentage is score / 5 * 100.
C2_ScoreConsistent ==
    Merged =>
        \A i \in 1..Len(heap[remediated_df]) :
            LET r == heap[remediated_df][i]
                present == {f \in Range(tag_fields) : r[f] # NaN}
            IN /\ r.TagCompletenessScore = Cardinality(present)
               /\ r.TagCompletenessScore \in 0..5
               /\ r.TagCompletenessPercentage * 5 = r.TagCompletenessScore * 100

\* C2's case: an edit has changed the completeness of a row.
C2_Witness ==
    /\ Merged
    /\ \E i \in 1..Len(heap[df]) :
          heap[remediated_df][i].TagCompletenessScore
              # heap[df][i].TagCompletenessScore

\* C3: no step of either page changes the rows of the base dataset, and the
\* "before" snapshot is the one the base dataset still gives after the merge.
C3_BaseUntouched ==
    /\ [][heap'[df'] = heap[df]]_vars
    /\ [](page = "remediation" => before_metrics = calculate_metrics(heap[df]))

\* C3's case: the merge has written a dataset that differs from the base.
C3_Witness ==
    /\ Merged
    /\ heap[remediated_df] # heap[df]
    /\ before_metrics = calculate_metrics(heap[df])

\* C4: no edited row carrying an Environment outside {Prod, Dev, Test} or a
\* Tagged outside {Yes, No} is merged, so no row of the merged dataset that an
\* edit matched holds such a value.
C4_InvalidEditsRejected ==
    Merged =>
        /\ \A k \in 1..Len(edited_df) :
              /\ edited_df[k].Environment \in EnvironmentOptions
              /\ edited_df[k].Tagged \in TaggedOptions
        /\ \A i \in 1..Len(heap[remediated_df]) :
              (\E k \in 1..Len(edited_df) :
                  PdEq(heap[df][i].ResourceID, edited_df[k].ResourceID))
              => /\ heap[remediated_df][i].Environment \in EnvironmentOptions
                 /\ heap[remediated_df][i].Tagged \in TaggedOptions

\* A snapshot m counts the rows of d as C5 says.
CountsOf(m, d) ==
    /\ m.total_resources = Cardinality(1..Len(d))
    /\ m.tagged_resources = Cardinality({i \in 1..Len(d) : d[i].Tagged = "Yes"})
    /\ m.untagged_resources = Cardinality({i \in 1..Len(d) : d[i].Tagged = "No"})
    /\ m.tagged_resources + m.untagged_resources <= m.total_resources

\* C5: every snapshot calculate_metrics returns has total_resources the number
\* of rows, tagged_resources the number of rows whose Tagged is exactly "Yes"
\* and untagged_resources the number whose Tagged is exactly "No"; the two
\* together never exceed the total.
C5_Counts ==
    /\ (page = "analytics" /\ ~warning) => CountsOf(metrics, heap[filtered_df])
    /\ page = "remediation" => CountsOf(before_metrics, heap[df])
    /\ Merged => CountsOf(after_metrics, heap[remediated_df])

\* C5's case: a snapshot over rows of which some are tagged Yes or No and
\* some are neither.
C5_Witness ==
    /\ page = "analytics"
    /\ ~warning
    /\ metrics.tagged_resources + metrics.untagged_resources > 0
    /\ metrics.tagged_resources + metrics.untagged_resources
           < metrics.total_resources

\* C6: the snapshot of an empty dataset has every numeric field zero.
C6_EmptyAllZero ==
    (page = "remediation" /\ Len(heap[df]) = 0) =>
        /\ before_metrics.total_resources = 0
        /\ before_metrics.tagged_resources = 0
        /\ before_metrics.untagged_resources = 0
        /\ before_metrics.total_cost = 0
        /\ before_metrics.tagged_cost = 0
        /\ before_metrics.untagged_cost = 0
        /\ IsZero(before_metrics.tagging_rate)
        /\ IsZero(before_metrics.untagged_cost_pct)
        /\ IsZero(before_metrics.avg_completeness)

\* The columns the sidebar filters.
FilterColumns == {"Service", "Region", "Department", "Environment"}

\* C7: the filtered view holds exactly the base rows that equal the selected
\* value in every column whose selection is not "All"; with every selection
\* "All" it is the base dataset.
C7_FilterConjunction ==
    page = "analytics" =>
        /\ heap[filtered_df] =
              SelectSeq(heap[df],
                        LAMBDA r : \A col \in FilterColumns :
                            selection[col] = "All"
                            \/ (r[col] # NaN /\ r[col] = selection[col]))
        /\ (\A col \in FilterColumns : selection[col] = "All")
              => heap[filtered_df] = heap[df]

\* C7's case: two columns constrained, a row with a missing department left
\* out, and a row kept.
C7_Witness ==
    /\ page = "analytics"
    /\ selection.Department # "All"
    /\ selection.Service # "All"
    /\ \E i \in 1..Len(heap[df]) : heap[df][i].Department = NaN
    /\ Len(heap[filtered_df]) > 0
    /\ Len(heap[filtered_df]) < Len(heap[df])

\* C8: loading the export of the merged dataset gives the merged dataset:
\* the same rows, the same missing cells, the same scores.
C8_RoundTrip ==
    page = "reloaded" => reloaded = heap[remediated_df]

\* The edited rows whose ResourceID equals that of base row i.
MatchingEdits(i) ==
    {k \in 1..Len(edited_df) : PdEq(edited_df[k].ResourceID, heap[df][i].ResourceID)}

\* C9: every base row whose ResourceID equals that of an edited row holds,
\* in each editable column, the value of the last such edited row; a base row
\* no edited row matches is the same in every column that is not derived.
C9_EditEveryMatch ==
    Merged =>
        /\ Len(heap[remediated_df]) = Len(heap[df])
        /\ \A i \in 1..Len(heap[df]) :
              IF MatchingEdits(i) = {}
              THEN \A c \in ReadOnlyColumns \cup EditableColumns :
                      heap[remediated_df][i][c] = heap[df][i][c]
              ELSE LET last == CHOOSE k \in MatchingEdits(i) :
                                  \A j \in MatchingEdits(i) : j <= k
                   IN \A c \in EditableColumns :
                          heap[remediated_df][i][c] = edited_df[last][c]

\* C9's case: an edit that changes a cell matches two base rows.
C9_Witness ==
    /\ Merged
    /\ \E i, j \in 1..Len(heap[df]) :
          /\ i # j
          /\ MatchingEdits(i) # {}
          /\ MatchingEdits(i) = MatchingEdits(j)
          /\ heap[remediated_df][i] # heap[df][i]

\* The sum of the completeness scores of dataset d.
ScoreSum(d) == SumOver(d, "TagCompletenessScore")

\* C10: each delta is shown with its magnitude when the improvement is
\* strictly positive and as zero otherwise, never negative.
C10_DeltasClamped ==
    Merged =>
        LET resources == before_metrics.untagged_resources
                         - after_metrics.untagged_resources
            cost == before_metrics.untagged_cost - after_metrics.untagged_cost
            gained == ScoreSum(heap[remediated_df]) - ScoreSum(heap[df])
        IN /\ deltas.untagged_resources.magnitude
                 = IF resources > 0 THEN resources ELSE 0
           /\ deltas.untagged_cost.magnitude = IF cost > 0 THEN cost ELSE 0
           /\ deltas.avg_completeness.magnitude
                 = IF gained > 0 THEN Format2f(gained, Len(heap[df])) ELSE 0
           /\ deltas.untagged_resources.magnitude >= 0
           /\ deltas.untagged_cost.magnitude >= 0
           /\ deltas.avg_completeness.magnitude >= 0

\* C10's case: the merge has made the untagged count and the average
\* completeness worse, and both deltas show zero.
C10_Witness ==
    /\ Merged
    /\ after_metrics.untagged_resources > before_metrics.untagged_resources
    /\ ScoreSum(heap[remediated_df]) < ScoreSum(heap[df])
    /\ deltas.untagged_resources.magnitude = 0
    /\ deltas.avg_completeness.magnitude = 0

====
